---- MODULE Spec2Model ----
(***************************************************************************)
(* Model of src/bin/mem.rs: main calls print_alloc for the DRAM and the    *)
(* IRAM region of an object file; print_alloc selects and sorts the        *)
(* region's symbols, walks the region's sections accounting for alignment  *)
(* padding, and prints a table whose sizes are rendered by Display for     *)
(* Bytes.                                                                  *)
(*                                                                         *)
(* Addresses and sizes are u64 in the program.  Every value the model      *)
(* reaches is below 2^31, so no u64 operation of the model wraps except    *)
(* `align - 1` at align = 0, which is modelled with both of its outcomes.  *)
(* Names are byte strings (sequences of byte values).  The percentage      *)
(* column (alloc) of the table is not modelled.                            *)
(***************************************************************************)
EXTENDS Integers, Sequences, FiniteSets

VARIABLES
    sections,   \* object.sections(): the object file's section table, in file order
    symbols,    \* object.symbols(): the object file's symbol table, in file order
    pc,         \* position in main/print_alloc: "call", "loop", "done", "panicked"
    call,       \* which print_alloc call of main is current or next (index in Calls)
    syms,       \* print_alloc's syms, after the sort
    total,      \* print_alloc's total (Bytes)
    last,       \* print_alloc's last
    it,         \* how many entries of the section table the loop's iterator has consumed
    pad,        \* the loop body's pad, of the latest iteration
    out,        \* standard output: the lines printed so far
    fmtIn,      \* the Bytes value handed to Display (formatter specification)
    fmtOut      \* what Display rendered for fmtIn, or NoRender before the call

vars == <<sections, symbols, pc, call, syms, total, last, it, pad, out, fmtIn, fmtOut>>

----------------------------------------------------------------------------
(* Bounds of the model's inputs.                                           *)

MaxSections == 2

MaxSymbols == 2

MaxQuot == 3

FmtSteps == 16

----------------------------------------------------------------------------
(* Regions.                                                                *)

DRAM == [start |-> 1070071808, end |-> 1070071808 + 327680 + 1536]

IRAM == [start |-> 1077395456 + 16384, end |-> (1077395456 + 16384) + (400 * 1024 - 1024)]

\* main: print_alloc(&object, DRAM, "DRAM"); print_alloc(&object, IRAM, "IRAM")
Calls == << [r |-> DRAM, name |-> "DRAM"], [r |-> IRAM, name |-> "IRAM"] >>

\* variant of contains with an inclusive end (start..=end)
containsUpToEnd(r, a) == r.start <= a /\ a <= r.end

\* Range<u64>::contains
contains(r, a) == r.start <= a /\ a < r.end

----------------------------------------------------------------------------
(* Orderings (std::cmp::Ordering) and the symbol sort.                     *)

\* u64::cmp
CmpU64(a, b) == IF a < b THEN "Less" ELSE IF a > b THEN "Greater" ELSE "Equal"

\* str::cmp: lexicographic on the bytes, a proper prefix being Less
RECURSIVE CmpStr(_, _)
CmpStr(a, b) ==
    IF a = <<>> /\ b = <<>> THEN "Equal"
    ELSE IF a = <<>> THEN "Less"
    ELSE IF b = <<>> THEN "Greater"
    ELSE IF Head(a) < Head(b) THEN "Less"
    ELSE IF Head(a) > Head(b) THEN "Greater"
    ELSE CmpStr(Tail(a), Tail(b))

\* Ordering::reverse
Reverse(o) == IF o = "Less" THEN "Greater" ELSE IF o = "Greater" THEN "Less" ELSE "Equal"

\* Ordering::then
Then(o, other) == IF o = "Equal" THEN other ELSE o

\* variant of SymCmp without the reverse() of the name comparison
SymCmpNameAscending(a, b) == Then(CmpU64(a.address, b.address), CmpStr(a.name, b.name))

\* the comparator of syms.sort_by: aa.cmp(&ba).then(an.cmp(bn).reverse())
SymCmp(a, b) == Then(CmpU64(a.address, b.address), Reverse(CmpStr(a.name, b.name)))

\* One insertion of a stable sort: x goes after every element that is not
\* Greater than it.
RECURSIVE Insert(_, _)
Insert(sorted, x) ==
    IF sorted = <<>> THEN <<x>>
    ELSE IF SymCmp(sorted[Len(sorted)], x) = "Greater"
         THEN Append(Insert(SubSeq(sorted, 1, Len(sorted) - 1), x), sorted[Len(sorted)])
         ELSE Append(sorted, x)

\* slice::sort_by, a stable sort
RECURSIVE SortBy(_)
SortBy(s) ==
    IF s = <<>> THEN <<>>
    ELSE Insert(SortBy(SubSeq(s, 1, Len(s) - 1)), s[Len(s)])

\* str::from_utf8 succeeds; the model's names are single-byte characters
\* (below 0x80) and the byte 0xFF, which no UTF-8 text contains.
IsUtf8(bytes) == \A i \in 1..Len(bytes) : bytes[i] < 128

\* object.symbols().filter(contains).filter_map(name ok).collect(): the
\* triples (address, name, sym), sym being the symbol's place in the table
SelectSyms(r) ==
    LET idx == {i \in 1..Len(symbols) :
                    contains(r, symbols[i].address) /\ IsUtf8(symbols[i].name)}
        F[n \in 0..Len(symbols)] ==
            IF n = 0 THEN <<>>
            ELSE IF n \in idx
                 THEN Append(F[n - 1], [address |-> symbols[n].address,
                                        name |-> symbols[n].name, sym |-> n])
                 ELSE F[n - 1]
    IN  F[Len(symbols)]

----------------------------------------------------------------------------
(* Padding.                                                                *)

\* u64 & u64
RECURSIVE BitAnd(_, _)
BitAnd(a, b) ==
    IF a = 0 \/ b = 0 THEN 0
    ELSE (a % 2) * (b % 2) + 2 * BitAnd(a \div 2, b \div 2)

\* variant of Pad with the mask taken as align, not align - 1
PadMaskIsAlign(lastAddr, align) == BitAnd(lastAddr, align)

\* let mask = align - 1; let pad = last & mask.  At align = 0 the
\* subtraction wraps to the all-ones mask where overflow checks are off, and
\* last & mask is last.
Pad(lastAddr, align) ==
    IF align = 0 THEN lastAddr ELSE BitAnd(lastAddr, align - 1)

----------------------------------------------------------------------------
(* Display for Bytes.                                                      *)

\* variant of Units listed from the smallest unit up
UnitsSmallestFirst ==
    << [shift |-> 10, suf |-> "KiB"], [shift |-> 20, suf |-> "MiB"],
       [shift |-> 30, suf |-> "GiB"], [shift |-> 40, suf |-> "TiB"],
       [shift |-> 50, suf |-> "PiB"], [shift |-> 60, suf |-> "EiB"] >>

\* the array find_map walks
Units ==
    << [shift |-> 60, suf |-> "EiB"], [shift |-> 50, suf |-> "PiB"],
       [shift |-> 40, suf |-> "TiB"], [shift |-> 30, suf |-> "GiB"],
       [shift |-> 20, suf |-> "MiB"], [shift |-> 10, suf |-> "KiB"] >>

\* d >> shift, for the model's d < 2^31
Shr(d, shift) == IF shift > 30 THEN 0 ELSE d \div (2 ^ shift)

\* the closure of find_map at Units[i], then the entries after it; the
\* float rem = (d % div) as f64 / div as f64 is kept as the exact fraction
\* num / 2^shift (exact in f64 for the model's values); unwrap_or((*d, 0f64, "B"))
RECURSIVE FindMap(_, _)
FindMap(d, i) ==
    IF i > Len(Units) THEN [d |-> d, rem |-> [num |-> 0, shift |-> 0], suf |-> "B"]
    ELSE IF Shr(d, Units[i].shift) > 0
         THEN [d   |-> Shr(d, Units[i].shift),
               rem |-> [num |-> d % (2 ^ Units[i].shift), shift |-> Units[i].shift],
               suf |-> Units[i].suf]
         ELSE FindMap(d, i + 1)

\* the number "{:03.0}" prints for rem * 1000.0: num * 1000 / 2^shift rounded
\* to an integer, a tie going to the even one.  With m = 2^(shift - 10),
\*   num * 1000 / 2^shift = (t + u / m) / 1024,
\* which keeps every intermediate value below 2^31.
Round000(rem) ==
    IF rem.shift = 0 THEN 0
    ELSE LET m == 2 ^ (rem.shift - 10)
             b == (rem.num % m) * 1000
             t == (rem.num \div m) * 1000 + (b \div m)
             u == b % m
             floor == t \div 1024
             f == t % 1024
             up == \/ f > 512
                   \/ f = 512 /\ u > 0
                   \/ f = 512 /\ u = 0 /\ floor % 2 = 1
         IN  IF up THEN floor + 1 ELSE floor

\* <Bytes as Display>::fmt: the integer part, ".", the fraction digits and
\* the suffix it writes
Display(d) ==
    LET t == FindMap(d, 1)
    IN  [int |-> t.d, frac |-> Round000(t.rem), suf |-> t.suf]

\* fmtOut before Display has run
NoRender == [int |-> 0, frac |-> 0, suf |-> ""]

----------------------------------------------------------------------------
(* The object files the model runs on.                                     *)

SeqsUpTo(S, n) == UNION {[1..k -> S] : k \in 0..n}

\* Sections as the object file reader exposes them: address(), size(),
\* align(), and the bytes name() decodes.
SectionPool ==
    { [address |-> a, size |-> s, align |-> al, name |-> <<97>>] :
        a \in {DRAM.start, DRAM.start + 16, DRAM.end - 16},
        s \in {5, 16}, al \in {1, 4, 16} }
    \cup
    { [address |-> DRAM.start, size |-> (DRAM.end - DRAM.start) - 17,
       align |-> 1, name |-> <<98>>],
      [address |-> DRAM.start - 16, size |-> 16, align |-> 16, name |-> <<99>>],
      [address |-> DRAM.end, size |-> 16, align |-> 16, name |-> <<100>>],
      [address |-> IRAM.start, size |-> 5, align |-> 4, name |-> <<101>>],
      [address |-> IRAM.start + 8, size |-> 16, align |-> 8, name |-> <<102>>],
      [address |-> IRAM.end, size |-> 16, align |-> 4, name |-> <<105>>],
      [address |-> DRAM.start + 16, size |-> 16, align |-> 0, name |-> <<103>>],
      [address |-> DRAM.start + 16, size |-> 16, align |-> 3, name |-> <<104>>],
      [address |-> DRAM.start + 16, size |-> 16, align |-> 16, name |-> <<255>>],
      [address |-> IRAM.start + 8, size |-> 16, align |-> 8, name |-> <<255>>] }

\* Symbols: address() and the bytes name() decodes.
SymbolPool ==
    [address : {DRAM.start, DRAM.start + 4, DRAM.end, IRAM.start, IRAM.end},
     name : {<<65>>, <<66>>, <<65, 66>>, <<255>>}]

FewSymbolTables ==
    { <<>>,
      << [address |-> DRAM.start, name |-> <<255>>],
         [address |-> DRAM.start, name |-> <<65>>] >> }

FewSectionTables ==
    { <<>>,
      << [address |-> DRAM.start, size |-> 256, align |-> 16, name |-> <<97>>] >>,
      << [address |-> IRAM.start, size |-> 5, align |-> 4, name |-> <<255>>] >> }

----------------------------------------------------------------------------
(* print_alloc.                                                            *)

\* the region of the current call
Region == Calls[call].r

\* variant of Selected that sorts the selected sections by address (a stable
\* sort) before the loop visits them
SelectedByAddress(r) ==
    LET idx == {i \in 1..Len(sections) : contains(r, sections[i].address)}
        Before(i, j) == \/ sections[i].address < sections[j].address
                        \/ sections[i].address = sections[j].address /\ i < j
    IN  [k \in 1..Cardinality(idx) |->
            CHOOSE i \in idx : Cardinality({j \in idx : Before(j, i)}) = k - 1]

\* object.sections().filter(|s| r.contains(&s.address())): the places in the
\* section table of the sections the loop visits, in the order it visits them
Selected(r) ==
    LET idx == {i \in 1..Len(sections) : contains(r, sections[i].address)}
    IN  [k \in 1..Cardinality(idx) |->
            CHOOSE i \in idx : Cardinality({j \in idx : j < i}) = k - 1]

\* One printed line.  label is the region's name (title line); name is a
\* section's decoded name.
Line(kind, label, start, end, size, human, name) ==
    [kind |-> kind, label |-> label, start |-> start, end |-> end,
     size |-> size, human |-> human, name |-> name]

\* println!("{name} allocation:")
TitleLine(label) == Line("title", label, 0, 0, 0, NoRender, <<>>)

\* the column header: addr, size, bytes, %, name
ColumnsLine == Line("columns", "", 0, 0, 0, NoRender, <<>>)

\* the "(padding)" line: its size column shows 0x{align:05x}
PaddingLine(align) == Line("padding", "", 0, 0, align, NoRender, <<>>)

\* the section line: 0x{start:x}-0x{end:x}, 0x{sz:05x}, ({sz:6}), {name}
SectionLine(sec) ==
    Line("section", "", sec.address, sec.address + sec.size, sec.size,
         Display(sec.size), sec.name)

\* the "total" line: 0x{total:05x}, ({total:6})
TotalLine(t) == Line("total", "", 0, 0, t, Display(t), <<>>)

\* print_alloc up to the loop: syms selected and sorted, total and last
\* initialised, the two header lines printed
PrintAllocEnter ==
    /\ pc = "call"
    /\ syms' = SortBy(SelectSyms(Region))
    /\ total' = 0
    /\ last' = Region.start
    /\ it' = 0
    /\ pad' = 0
    /\ out' = out \o << TitleLine(Calls[call].name), ColumnsLine >>
    /\ pc' = "loop"
    /\ UNCHANGED <<sections, symbols, call, fmtIn, fmtOut>>

\* the section the loop body runs on next
Sec == sections[Selected(Region)[it + 1]]

\* variant of SectionPanicName that prints the section's line with the
\* undecoded name and goes on, as the symbols' filter_map does
SectionLossyName ==
    /\ pc = "loop"
    /\ it < Len(Selected(Region))
    /\ ~IsUtf8(Sec.name)
    /\ pad' = Pad(last, Sec.align)
    /\ out' = out \o (IF pad' > 0 THEN << PaddingLine(Sec.align) >> ELSE <<>>)
                  \o << SectionLine(Sec) >>
    /\ total' = total + (Sec.size + pad')
    /\ last' = Sec.address + Sec.size
    /\ it' = it + 1
    /\ UNCHANGED <<sections, symbols, pc, call, syms, fmtIn, fmtOut>>

\* one iteration of the loop body, to its end
SectionStep ==
    /\ pc = "loop"
    /\ it < Len(Selected(Region))
    /\ IsUtf8(Sec.name)
    /\ pad' = Pad(last, Sec.align)
    /\ out' = out \o (IF pad' > 0 THEN << PaddingLine(Sec.align) >> ELSE <<>>)
                  \o << SectionLine(Sec) >>
    /\ total' = total + (Sec.size + pad')
    /\ last' = Sec.address + Sec.size
    /\ it' = it + 1
    /\ UNCHANGED <<sections, symbols, pc, call, syms, fmtIn, fmtOut>>

\* one iteration that ends in sec.name().expect("non utf-8 section name"):
\* the padding line, if any, is already printed
SectionPanicName ==
    /\ pc = "loop"
    /\ it < Len(Selected(Region))
    /\ ~IsUtf8(Sec.name)
    /\ pad' = Pad(last, Sec.align)
    /\ out' = out \o (IF pad' > 0 THEN << PaddingLine(Sec.align) >> ELSE <<>>)
    /\ pc' = "panicked"
    /\ UNCHANGED <<sections, symbols, call, syms, total, last, it, fmtIn, fmtOut>>

\* one iteration that ends in `align - 1` at align = 0, where overflow
\* checks are on: "attempt to subtract with overflow"
SectionPanicAlign ==
    /\ pc = "loop"
    /\ it < Len(Selected(Region))
    /\ Sec.align = 0
    /\ pc' = "panicked"
    /\ UNCHANGED <<sections, symbols, call, syms, total, last, it, pad, out, fmtIn, fmtOut>>

\* the loop is over: the totals line, and print_alloc returns to main
PrintAllocReturn ==
    /\ pc = "loop"
    /\ it = Len(Selected(Region))
    /\ out' = Append(out, TotalLine(total))
    /\ pc' = IF call < Len(Calls) THEN "call" ELSE "done"
    /\ call' = IF call < Len(Calls) THEN call + 1 ELSE call
    /\ UNCHANGED <<sections, symbols, syms, total, last, it, pad, fmtIn, fmtOut>>

Init ==
    /\ \/ sections \in SeqsUpTo(SectionPool, MaxSections) /\ symbols \in FewSymbolTables
       \/ sections \in FewSectionTables /\ symbols \in SeqsUpTo(SymbolPool, MaxSymbols)
    \* the wrapped mask adds last itself to total: one such section keeps
    \* total below 2^31
    /\ Cardinality({i \in 1..Len(sections) : sections[i].align = 0}) <= 1
    /\ pc = "call"
    /\ call = 1
    /\ syms = <<>>
    /\ total = 0
    /\ last = 0
    /\ it = 0
    /\ pad = 0
    /\ out = <<>>
    /\ fmtIn = 0
    /\ fmtOut = NoRender

Next ==
    \/ PrintAllocEnter
    \/ SectionStep
    \/ SectionPanicName
    \/ SectionPanicAlign
    \/ PrintAllocReturn

Spec == Init /\ [][Next]_vars

----------------------------------------------------------------------------
(* Display for Bytes on its own: one value in, one rendering out.          *)

\* remainders around the multiples of 2^shift / FmtSteps
FmtRems(shift) ==
    { r \in { (2 ^ shift \div FmtSteps) * k + e : k \in 0..FmtSteps, e \in {-1, 0, 1} }
            \cup {2 ^ shift - 1} :
        0 <= r /\ r < 2 ^ shift }

FmtExamples == {0, 1, 1023, 1024, 1536, 1048575, 1048576 + 512, 2097151}

FmtInputs ==
    FmtExamples
    \cup UNION { { q * 2 ^ shift + r : r \in FmtRems(shift) } :
                 <<shift, q>> \in { p \in {10, 20, 30} \X (1..MaxQuot) :
                                      p[2] <= 2147483647 \div 2 ^ p[1] } }

Fmt ==
    /\ pc = "fmt"
    /\ fmtOut = NoRender
    /\ fmtOut' = Display(fmtIn)
    /\ UNCHANGED <<sections, symbols, pc, call, syms, total, last, it, pad, out, fmtIn>>

InitFmt ==
    /\ sections = <<>>
    /\ symbols = <<>>
    /\ pc = "fmt"
    /\ call = 1
    /\ syms = <<>>
    /\ total = 0
    /\ last = 0
    /\ it = 0
    /\ pad = 0
    /\ out = <<>>
    /\ fmtIn \in FmtInputs
    /\ fmtOut = NoRender

NextFmt == Fmt

SpecFmt == InitFmt /\ [][NextFmt]_vars

----------------------------------------------------------------------------
(* Vocabulary of the properties.                                           *)

\* the call whose report is the latest in out (0: none yet)
CurCall == IF pc = "call" THEN call - 1 ELSE call

CurRegion == Calls[CurCall].r

\* the latest report: the lines from the last title line on
Report ==
    LET titles == {i \in 1..Len(out) : out[i].kind = "title"}
    IN  IF titles = {} THEN <<>>
        ELSE SubSeq(out, CHOOSE i \in titles : \A j \in titles : j <= i, Len(out))

IsSectionLine(l) == l.kind = "section"

IsSizedLine(l) == l.kind \in {"section", "padding"}

SectionLines == SelectSeq(Report, IsSectionLine)

\* the latest report has its totals line
Finished == Report # <<>> /\ Report[Len(Report)].kind = "total"

RECURSIVE SumSizes(_)
SumSizes(ls) == IF ls = <<>> THEN 0 ELSE Head(ls).size + SumSizes(Tail(ls))

IsPow2(n) == n \in {2 ^ k : k \in 0..30}

\* the places in the section table of the sections whose address is in
\* [r.start, r.end), in table order
InRegion(r) ==
    {i \in 1..Len(sections) : r.start <= sections[i].address /\ sections[i].address < r.end}

FileOrder(r) ==
    [k \in 1..Cardinality(InRegion(r)) |->
        CHOOSE i \in InRegion(r) : Cardinality({j \in InRegion(r) : j < i}) = k - 1]

\* the region's sections, in table order, are ascending and do not overlap
Ascending(r) ==
    \A k \in 1..(Cardinality(InRegion(r)) - 1) :
        LET a == sections[FileOrder(r)[k]]
            b == sections[FileOrder(r)[k + 1]]
        IN  a.address + a.size <= b.address

\* ... and each lies inside the region at a multiple of its power-of-two alignment
WellFormed(r) ==
    /\ Ascending(r)
    /\ \A i \in InRegion(r) :
        /\ sections[i].address + sections[i].size <= r.end
        /\ IsPow2(sections[i].align)
        /\ sections[i].address % sections[i].align = 0

\* the section the latest iteration ran on, and the section before it
Cur == sections[FileOrder(CurRegion)[it]]

Prev == sections[FileOrder(CurRegion)[it - 1]]

----------------------------------------------------------------------------
(* Properties.                                                             *)

\* C1: for a well-formed section list (ascending, non-overlapping, inside
\* the region, aligned to power-of-two alignments) the total on the totals
\* line never exceeds the region's capacity end - start.
C1_TotalWithinCapacity ==
    (CurCall >= 1 /\ Finished /\ WellFormed(CurRegion))
        => Report[Len(Report)].size <= CurRegion.end - CurRegion.start

\* C2: when the previous section ended at a last_address that is not a
\* multiple of the section's power-of-two alignment and the section starts
\* at last_address rounded up to it, the padding recorded and added to the
\* total is the gap, section start - last_address.
C2_PaddingIsGap ==
    (pc = "loop" /\ it >= 2 /\ IsPow2(Cur.align)
        /\ (Prev.address + Prev.size) % Cur.align # 0
        /\ Cur.address = (Prev.address + Prev.size)
                            + (Cur.align - ((Prev.address + Prev.size) % Cur.align)))
        => pad = Cur.address - (Prev.address + Prev.size)

\* C3: for an ascending, non-overlapping section list (of power-of-two
\* alignments), the sizes shown on the section lines and padding lines of a
\* report add up to the total on its totals line.
C3_ShownSizesAddUp ==
    (CurCall >= 1 /\ Finished /\ Ascending(CurRegion)
        /\ \A i \in InRegion(CurRegion) : IsPow2(sections[i].align))
        => SumSizes(SelectSeq(Report, IsSizedLine)) = Report[Len(Report)].size

\* C4: at every processed section with a power-of-two alignment, pad is
\* non-zero, and a padding line is printed, exactly if last_address is not a
\* multiple of the alignment; at alignment 1 pad is zero and no padding line
\* is printed.
C4_PaddingIffMisaligned ==
    [][ (pc = "loop" /\ it < Len(Selected(Region)) /\ IsPow2(Sec.align)
            /\ (it' = it + 1 \/ pc' = "panicked"))
        => LET padded == Len(out') > Len(out) /\ out'[Len(out) + 1].kind = "padding"
           IN  /\ (pad' > 0) <=> (last % Sec.align # 0)
               /\ padded <=> (last % Sec.align # 0)
               /\ Sec.align = 1 => (pad' = 0 /\ ~padded) ]_vars

\* a section with alignment 16 was processed at a misaligned last_address
C4_Witness ==
    /\ pc = "loop" /\ it >= 2
    /\ Cur.align = 16
    /\ (Prev.address + Prev.size) % 16 # 0
    /\ pad > 0
    /\ \E i \in 1..Len(out) : out[i].kind = "padding"

\* C5 as stated: whatever order the object file yields its sections in, the
\* section lines of a report are in ascending start-address order.
C5_VisitedAscending ==
    \A k \in 1..(Len(SectionLines) - 1) :
        SectionLines[k].start <= SectionLines[k + 1].start

\* C5 as amended: the selected sections are visited in the order the object
\* file yields them: the k-th section line of a report is the line of the
\* k-th section of the table whose address is in the region.
C5_VisitedInFileOrder ==
    CurCall >= 1 =>
        /\ Len(SectionLines) <= Cardinality(InRegion(CurRegion))
        /\ \A k \in 1..Len(SectionLines) :
            LET sec == sections[FileOrder(CurRegion)[k]]
            IN  /\ SectionLines[k].start = sec.address
                /\ SectionLines[k].size = sec.size
                /\ SectionLines[k].name = sec.name
        /\ Finished => Len(SectionLines) = Cardinality(InRegion(CurRegion))

\* a finished report whose section lines are in table order and not in
\* address order
C5_Witness ==
    /\ CurCall >= 1 /\ Finished
    /\ Len(SectionLines) = 2
    /\ SectionLines[1].start > SectionLines[2].start

\* C6: a symbol whose name is not valid text is dropped from syms and never
\* stops the report, whereas the first selected section whose name is not
\* valid text stops it: only a section aborts the run, and then the report
\* holds the section lines of the sections before it, no section line of an
\* undecodable name, and no totals line.
C6_NameFailuresAsymmetric ==
    /\ \A k \in 1..Len(syms) : IsUtf8(syms[k].name)
    /\ CurCall >= 1 =>
        {syms[k].sym : k \in 1..Len(syms)}
            = {i \in 1..Len(symbols) :
                /\ CurRegion.start <= symbols[i].address
                /\ symbols[i].address < CurRegion.end
                /\ IsUtf8(symbols[i].name)}
    /\ \A i \in 1..Len(out) : out[i].kind = "section" => IsUtf8(out[i].name)
    /\ pc = "panicked" =>
        /\ it < Cardinality(InRegion(CurRegion))
        /\ LET sec == sections[FileOrder(CurRegion)[it + 1]]
           IN  ~IsUtf8(sec.name) \/ sec.align = 0
        /\ Len(SectionLines) = it
        /\ ~Finished

\* the report of a region that holds an undecodable symbol was stopped by
\* its second section, whose name is undecodable
C6_Witness ==
    /\ pc = "panicked"
    /\ it = 1
    /\ Len(SectionLines) = 1
    /\ ~IsUtf8(sections[FileOrder(CurRegion)[2]].name)
    /\ sections[FileOrder(CurRegion)[2]].align # 0
    /\ \E i \in 1..Len(symbols) :
        /\ CurRegion.start <= symbols[i].address
        /\ symbols[i].address < CurRegion.end
        /\ ~IsUtf8(symbols[i].name)

\* C7: the fraction Display writes is a number of exactly three digits,
\* 000..999.
C7_FractionThreeDigits ==
    fmtOut # NoRender => fmtOut.frac \in 0..999

\* C8: Display picks the largest unit whose shift leaves a non-zero quotient
\* and writes that quotient as the integer part; below 1024 the unit is
\* plain bytes, the integer part the value and the fraction zero.
C8_LargestUnit ==
    fmtOut # NoRender =>
        IF fmtIn < 1024
        THEN fmtOut.suf = "B" /\ fmtOut.int = fmtIn /\ fmtOut.frac = 0
        ELSE \E u \in {<<10, "KiB">>, <<20, "MiB">>, <<30, "GiB">>} :
                /\ fmtOut.suf = u[2]
                /\ fmtOut.int = fmtIn \div 2 ^ u[1]
                /\ fmtOut.int >= 1
                /\ fmtOut.int < 1024

\* 1024 * 1024 + 512 is rendered with integer part 1 and unit MiB
C8_Witness ==
    /\ fmtIn = 1024 * 1024 + 512
    /\ fmtOut # NoRender
    /\ fmtOut.int = 1
    /\ fmtOut.suf = "MiB"

\* the symbols and the sections print_alloc has selected for the latest
\* call are those whose address is in [start, end)
SelectionByHalfOpenInterval ==
    CurCall >= 1 =>
        /\ \A k \in 1..Len(syms) :
            /\ CurRegion.start <= syms[k].address
            /\ syms[k].address < CurRegion.end
        /\ \A i \in 1..Len(symbols) :
            (/\ CurRegion.start <= symbols[i].address
             /\ symbols[i].address < CurRegion.end
             /\ IsUtf8(symbols[i].name))
                => \E k \in 1..Len(syms) : syms[k].sym = i
        /\ \A k \in 1..Len(SectionLines) :
            /\ CurRegion.start <= SectionLines[k].start
            /\ SectionLines[k].start < CurRegion.end
        /\ Finished =>
            /\ Len(SectionLines) = Cardinality(InRegion(CurRegion))
            /\ \A i \in InRegion(CurRegion) :
                \E k \in 1..Len(SectionLines) :
                    /\ SectionLines[k].start = sections[i].address
                    /\ SectionLines[k].size = sections[i].size
                    /\ SectionLines[k].name = sections[i].name

\* C9: a symbol or section is in a region's report exactly if
\* start <= address < end, for the symbols and the sections of each of the
\* two calls, and no step changes the object file's tables.
C9_HalfOpenSelection ==
    [][ /\ sections' = sections
        /\ symbols' = symbols
        /\ SelectionByHalfOpenInterval' ]_vars

\* both reports are finished for a section table with a section at
\* DRAM.start (in DRAM's report) and a section at DRAM.end (in neither)
C9_Witness ==
    /\ pc = "done"
    /\ \E i, j \in 1..Len(sections) :
        /\ sections[i].address = DRAM.start
        /\ sections[j].address = DRAM.end
    /\ \E i \in 1..Len(out) : out[i].kind = "section" /\ out[i].start = DRAM.start
    /\ ~\E i \in 1..Len(out) : out[i].kind = "section" /\ out[i].start = DRAM.end

\* C10: syms is in ascending address order, symbols of one address in
\* descending name order; symbols that differ in (address, name) are thus in
\* the one strictly ordered sequence, whatever their order in the table.
C10_SymbolOrder ==
    \A i, j \in 1..Len(syms) :
        i < j =>
            \/ syms[i].address < syms[j].address
            \/ /\ syms[i].address = syms[j].address
               /\ CmpStr(syms[i].name, syms[j].name) = "Greater"
            \/ /\ syms[i].address = syms[j].address
               /\ syms[i].name = syms[j].name
               /\ syms[i].sym < syms[j].sym

\* "A" then "B" at one address in the table came out "B" first
C10_Witness ==
    /\ Len(syms) = 2
    /\ syms[1].address = syms[2].address
    /\ syms[1].name = <<66>> /\ syms[2].name = <<65>>
    /\ syms[1].sym = 2 /\ syms[2].sym = 1

====
